---- MODULE Spec2Model ----
(***************************************************************************)
(* A model of the kilo text editor (src/kilo.c): the row store with its    *)
(* raw/rendered lines, the coordinate mapper, the edit operations, the     *)
(* viewport controller, the prompt and the incremental search, driven by   *)
(* the main loop  while (1) { editorRefreshScreen(); editorProcessKeypress(); } *)
(* Bytes and keys are the integers the C code uses.  Row and column        *)
(* indices are 0-based as in the C code; TLA+ sequences are 1-based, so    *)
(* E.row[i] of the code is e.row[i + 1] here.                              *)
(***************************************************************************)
EXTENDS Integers, Sequences, FiniteSets, TLC

(* ------------------------------ defines ------------------------------ *)
KILO_TAB_STOP == 8
KILO_QUIT_TIMES == 3

BACKSPACE == 127
ARROW_LEFT == 1000
ARROW_RIGHT == 1001
ARROW_UP == 1002
ARROW_DOWN == 1003
DEL_KEY == 1004
HOME_KEY == 1005
END_KEY == 1006
PAGE_UP == 1007
PAGE_DOWN == 1008

\* CTRL_KEY(k) is k & 0x1f
CTRL_H == 8
CTRL_F == 6
CTRL_L == 12
CTRL_Q == 17
CTRL_S == 19
TAB == 9
LF == 10
CR == 13
ESC == 27
SPACE == 32
LETTER_A == 97
LETTER_F == 102
\* bytes of the escape sequences, a byte above 127, and the mark of a read() that
\* timed out
CH_LBRACKET == 91
CH_O == 79
CH_TILDE == 126
CH_0 == 48
CH_A == 65
CH_B == CH_A + 1
CH_C == CH_A + 2
CH_D == CH_A + 3
CH_F == CH_A + 5
CH_H == CH_A + 7
HIGH_BYTE == 233
NoByte == -1
LETTER_B == LETTER_A + 1
LETTER_C == LETTER_A + 2
LETTER_H == LETTER_A + 7
LETTER_I == LETTER_A + 8
LETTER_X == LETTER_A + 23
LETTER_Y == LETTER_A + 24
LETTER_Z == LETTER_A + 25

(* ------------------------------ bounds ------------------------------- *)
\* most lines a document may hold, most bytes a line may hold
MaxRows == 2
MaxLen == 2
\* the dirty counter is an int; edits are cut off once it would pass MaxDirty
MaxDirty == 2
\* the frame: E.screenrows and E.screencols as getWindowSize and initEditor leave them
ScreenRows == 2
ScreenCols == 2
\* most bytes of the file named on the command line
MaxFileLen == 2
\* most bytes typed into a prompt
MaxBuf == 1
\* longest line of the coordinate-mapper specification
MapLen == 4
\* bytes of the file in SpecLoadSave
MaxLoadLen == 3
\* most reads the terminal input of SpecKeys serves
MaxStdin == 4
\* most lines of a document, and most bytes of a line, at the start of SpecEdit
EditRows == 3
EditLen == 2
\* most lines of a document, and most bytes of a query, in SpecFind
FindRows == 3
FindBuf == 2

\* the bytes typed into the document, and the bytes a file is made of
Chars == {LETTER_A, TAB}
FileBytes == {LETTER_A, TAB, CR, LF}

RECURSIVE SeqsUpTo(_, _)
SeqsUpTo(S, n) ==
  IF n = 0 THEN {<<>>}
  ELSE LET shorter == SeqsUpTo(S, n - 1)
       IN shorter \cup {Append(s, x) : s \in {t \in shorter : Len(t) = n - 1}, x \in S}

(* --------------------------- row operations -------------------------- *)
numrows(e) == Len(e.row)
size(row) == Len(row.chars)
rsize(row) == Len(row.render)

\* for (j = 0; j < cx; j++) { if (chars[j] == '\t') rx += 7 - rx % 8; rx++; }
RECURSIVE CxToRxLoop(_, _, _, _)
CxToRxLoop(chars, cx, j, rx) ==
  IF j >= cx THEN rx
  ELSE LET rx1 == IF chars[j + 1] = TAB
                  THEN rx + (KILO_TAB_STOP - 1) - (rx % KILO_TAB_STOP)
                  ELSE rx
       IN CxToRxLoop(chars, cx, j + 1, rx1 + 1)

\* every byte taken to be one column wide: tabs not expanded
editorRowCxToRx_m(row, cx) == cx

editorRowCxToRx(row, cx) == CxToRxLoop(row.chars, cx, 0, 0)

RECURSIVE RxToCxLoop(_, _, _, _)
RxToCxLoop(chars, rx, cx, cur_rx) ==
  IF cx >= Len(chars) THEN cx
  ELSE LET c1 == IF chars[cx + 1] = TAB
                 THEN cur_rx + (KILO_TAB_STOP - 1) - (cur_rx % KILO_TAB_STOP)
                 ELSE cur_rx
           c2 == c1 + 1
       IN IF c2 > rx THEN cx ELSE RxToCxLoop(chars, rx, cx + 1, c2)

\* every byte taken to be one column wide: tabs not expanded
editorRowRxToCx_m(row, rx) == IF rx > size(row) THEN size(row) ELSE rx

editorRowRxToCx(row, rx) == RxToCxLoop(row.chars, rx, 0, 0)

\* while (idx % KILO_TAB_STOP != 0) render[idx++] = ' ';
RECURSIVE PadToTabStop(_)
PadToTabStop(render) ==
  IF Len(render) % KILO_TAB_STOP # 0 THEN PadToTabStop(Append(render, SPACE))
  ELSE render

RECURSIVE RenderLoop(_, _, _)
RenderLoop(chars, j, render) ==
  IF j >= Len(chars) THEN render
  ELSE IF chars[j + 1] = TAB
       THEN RenderLoop(chars, j + 1, PadToTabStop(Append(render, SPACE)))
       ELSE RenderLoop(chars, j + 1, Append(render, chars[j + 1]))

editorUpdateRow(row) == [row EXCEPT !.render = RenderLoop(row.chars, 0, <<>>)]

\* a new erow as editorInsertRow builds it: chars copied, render NULL, then updated
NewRow(s) == editorUpdateRow([chars |-> s, render |-> <<>>])

InsertAt(seq, at, x) == SubSeq(seq, 1, at) \o <<x>> \o SubSeq(seq, at + 1, Len(seq))
RemoveAt(seq, at) == SubSeq(seq, 1, at) \o SubSeq(seq, at + 2, Len(seq))

editorInsertRow(e, at, s) ==
  IF at < 0 \/ at > numrows(e) THEN e
  ELSE [e EXCEPT !.row = InsertAt(e.row, at, NewRow(s)), !.dirty = e.dirty + 1]

editorDelRow(e, at) ==
  IF at < 0 \/ at >= numrows(e) THEN e
  ELSE [e EXCEPT !.row = RemoveAt(e.row, at), !.dirty = e.dirty + 1]

\* the insertion without E.dirty++
editorRowInsertChar_m(e, r, at0, c) ==
  LET row == e.row[r + 1]
      at == IF at0 < 0 \/ at0 > size(row) THEN size(row) ELSE at0
      row1 == editorUpdateRow([row EXCEPT !.chars = InsertAt(row.chars, at, c)])
  IN [e EXCEPT !.row[r + 1] = row1]

\* the row is E.row[r]
editorRowInsertChar(e, r, at0, c) ==
  LET row == e.row[r + 1]
      at == IF at0 < 0 \/ at0 > size(row) THEN size(row) ELSE at0
      row1 == editorUpdateRow([row EXCEPT !.chars = InsertAt(row.chars, at, c)])
  IN [e EXCEPT !.row[r + 1] = row1, !.dirty = e.dirty + 1]

\* the string put before the row's bytes instead of after them
editorRowAppendString_front(e, r, s) ==
  LET row == e.row[r + 1]
      row1 == editorUpdateRow([row EXCEPT !.chars = s \o row.chars])
  IN [e EXCEPT !.row[r + 1] = row1, !.dirty = e.dirty + 1]

editorRowAppendString(e, r, s) ==
  LET row == e.row[r + 1]
      row1 == editorUpdateRow([row EXCEPT !.chars = row.chars \o s])
  IN [e EXCEPT !.row[r + 1] = row1, !.dirty = e.dirty + 1]

\* the deletion without E.dirty++
editorRowDelChar_nodirty(e, r, at) ==
  LET row == e.row[r + 1]
  IN IF at < 0 \/ at >= size(row) THEN e
     ELSE [e EXCEPT !.row[r + 1] =
                       editorUpdateRow([row EXCEPT !.chars = RemoveAt(row.chars, at)])]

editorRowDelChar(e, r, at) ==
  LET row == e.row[r + 1]
  IN IF at < 0 \/ at >= size(row) THEN e
     ELSE [e EXCEPT !.row[r + 1] =
                       editorUpdateRow([row EXCEPT !.chars = RemoveAt(row.chars, at)]),
                    !.dirty = e.dirty + 1]

(* -------------------------- editor operations ------------------------ *)
editorInsertChar(e, c) ==
  LET e1 == IF e.cy = numrows(e) THEN editorInsertRow(e, numrows(e), <<>>) ELSE e
      e2 == editorRowInsertChar(e1, e1.cy, e1.cx, c)
  IN [e2 EXCEPT !.cx = e2.cx + 1]

\* the split without row->size = E.cx: the line keeps its tail
editorInsertNewline_notrunc(e) ==
  LET e1 == IF e.cx = 0 THEN editorInsertRow(e, e.cy, <<>>)
            ELSE LET row == e.row[e.cy + 1]
                 IN editorInsertRow(e, e.cy + 1, SubSeq(row.chars, e.cx + 1, size(row)))
  IN [e1 EXCEPT !.cy = e1.cy + 1, !.cx = 0]

\* the split without the editorUpdateRow of the truncated line
editorInsertNewline_m(e) ==
  LET e1 == IF e.cx = 0 THEN editorInsertRow(e, e.cy, <<>>)
            ELSE LET row == e.row[e.cy + 1]
                     a == editorInsertRow(e, e.cy + 1,
                                          SubSeq(row.chars, e.cx + 1, size(row)))
                     row1 == a.row[a.cy + 1]
                 IN [a EXCEPT !.row[a.cy + 1] =
                        [row1 EXCEPT !.chars = SubSeq(row1.chars, 1, a.cx)]]
  IN [e1 EXCEPT !.cy = e1.cy + 1, !.cx = 0]

editorInsertNewline(e) ==
  LET e1 == IF e.cx = 0 THEN editorInsertRow(e, e.cy, <<>>)
            ELSE LET row == e.row[e.cy + 1]
                     a == editorInsertRow(e, e.cy + 1,
                                          SubSeq(row.chars, e.cx + 1, size(row)))
                     row1 == a.row[a.cy + 1]
                 IN [a EXCEPT !.row[a.cy + 1] =
                        editorUpdateRow([row1 EXCEPT !.chars = SubSeq(row1.chars, 1, a.cx)])]
  IN [e1 EXCEPT !.cy = e1.cy + 1, !.cx = 0]

\* editorRowDelChar(row, E.cx): the byte under the cursor, not the one before it
editorDelChar_m(e) ==
  IF e.cy = numrows(e) THEN e
  ELSE IF e.cx = 0 /\ e.cy = 0 THEN e
  ELSE IF e.cx > 0
       THEN LET e1 == editorRowDelChar(e, e.cy, e.cx)
            IN [e1 EXCEPT !.cx = e1.cx - 1]
       ELSE LET row == e.row[e.cy + 1]
                e1 == [e EXCEPT !.cx = size(e.row[e.cy])]
                e2 == editorRowAppendString(e1, e1.cy - 1, row.chars)
                e3 == editorDelRow(e2, e2.cy)
            IN [e3 EXCEPT !.cy = e3.cy - 1]

editorDelChar(e) ==
  IF e.cy = numrows(e) THEN e
  ELSE IF e.cx = 0 /\ e.cy = 0 THEN e
  ELSE IF e.cx > 0
       THEN LET e1 == editorRowDelChar(e, e.cy, e.cx - 1)
            IN [e1 EXCEPT !.cx = e1.cx - 1]
       ELSE LET row == e.row[e.cy + 1]
                e1 == [e EXCEPT !.cx = size(e.row[e.cy])]
                e2 == editorRowAppendString(e1, e1.cy - 1, row.chars)
                e3 == editorDelRow(e2, e2.cy)
            IN [e3 EXCEPT !.cy = e3.cy - 1]

(* ------------------------------ file i/o ----------------------------- *)
NULL == << >>

\* only the line feed taken off the end of the line
StripLineEnd_m(line) ==
  IF Len(line) > 0 /\ line[Len(line)] = LF
  THEN SubSeq(line, 1, Len(line) - 1)
  ELSE line

\* while (linelen > 0 && (line[linelen-1] == '\n' || line[linelen-1] == '\r')) linelen--;
RECURSIVE StripLineEnd(_)
StripLineEnd(line) ==
  IF Len(line) > 0 /\ (line[Len(line)] = LF \/ line[Len(line)] = CR)
  THEN StripLineEnd(SubSeq(line, 1, Len(line) - 1))
  ELSE line

\* the getline loop: a line runs up to and including the next '\n', or to end of file
RECURSIVE OpenLoop(_, _, _, _)
OpenLoop(e, bytes, k, line) ==
  IF k > Len(bytes)
  THEN IF Len(line) = 0 THEN e
       ELSE editorInsertRow(e, numrows(e), StripLineEnd(line))
  ELSE LET line1 == Append(line, bytes[k])
       IN IF bytes[k] = LF
          THEN OpenLoop(editorInsertRow(e, numrows(e), StripLineEnd(line1)), bytes, k + 1, <<>>)
          ELSE OpenLoop(e, bytes, k + 1, line1)

\* editorOpen once fopen has succeeded
editorOpen(e, name, bytes) ==
  LET e1 == OpenLoop([e EXCEPT !.filename = name], bytes, 1, <<>>)
  IN [e1 EXCEPT !.dirty = 0]

RECURSIVE RowsToStringLoop(_, _, _)
RowsToStringLoop(rows, j, buf) ==
  IF j >= Len(rows) THEN buf
  ELSE RowsToStringLoop(rows, j + 1, Append(buf \o rows[j + 1].chars, LF))

editorRowsToString(e) == RowsToStringLoop(e.row, 0, <<>>)

\* the body of editorSave below the prompt: what open, ftruncate and write returned
SaveOutcomes == {"written", "open_failed", "ftruncate_failed", "write_failed"}

\* E.dirty = 0 whatever open, ftruncate and write returned
editorSaveWrite_m(e, o) == [e EXCEPT !.dirty = 0]

\* E.dirty = 0 before write has returned len
editorSaveWrite_early(e, o) ==
  IF o \in {"written", "write_failed"} THEN [e EXCEPT !.dirty = 0] ELSE e

editorSaveWrite(e, o) ==
  IF o = "written" THEN [e EXCEPT !.dirty = 0] ELSE e

\* the bytes handed to write(fd, buf, len), <<-1>> when write is not called
NoWrite == <<-1>>
WriteArg(e, o) ==
  IF o \in {"written", "write_failed"} THEN editorRowsToString(e) ELSE NoWrite

(* -------------------------------- find ------------------------------- *)
\* strstr(haystack, needle): offset of the first occurrence, -1 for no match
IsAt(hay, needle, off) ==
  /\ off + Len(needle) <= Len(hay)
  /\ \A i \in 1..Len(needle) : hay[off + i] = needle[i]

RECURSIVE StrStrFrom(_, _, _)
StrStrFrom(hay, needle, off) ==
  IF off + Len(needle) > Len(hay) THEN -1
  ELSE IF IsAt(hay, needle, off) THEN off
  ELSE StrStrFrom(hay, needle, off + 1)

strstr(hay, needle) == StrStrFrom(hay, needle, 0)

\* the scan of editorFindCallback; reads collects every index used in E.row[current].
\* An index outside the row array reads no row: the scan is cut there, and what the
\* program does after such a read is left open (ScanInBounds).
RECURSIVE FindLoop(_, _, _, _, _, _)
FindLoop(e, query, direction, current0, i, reads) ==
  IF i >= numrows(e)
  THEN [found |-> FALSE, current |-> current0, reads |-> reads]
  ELSE LET c1 == current0 + direction
           current == IF c1 = -1 THEN numrows(e) - 1
                      ELSE IF c1 = numrows(e) THEN 0 ELSE c1
           inside == current >= 0 /\ current < numrows(e)
           match == IF inside THEN strstr(e.row[current + 1].render, query) ELSE -1
           reads1 == Append(reads, current)
       IN IF ~inside
          THEN [found |-> FALSE, current |-> current0, reads |-> reads1]
          ELSE IF match # -1
          THEN [found |-> TRUE, current |-> current, reads |-> reads1]
          ELSE FindLoop(e, query, direction, current, i + 1, reads1)

\* the last else branch without last_match = -1: a typed key goes on from the last match
editorFindCallback_noreset(e, st, query, key) ==
  IF key = CR \/ key = LF
  THEN [E |-> e, last_match |-> -1, direction |-> 1, reads |-> <<>>]
  ELSE LET lm == st.last_match
           d0 == IF key \in {ARROW_RIGHT, ARROW_DOWN} THEN 1
                 ELSE IF key \in {ARROW_LEFT, ARROW_UP} THEN -1 ELSE 1
           dir == IF lm = -1 THEN 1 ELSE d0
           scan == FindLoop(e, query, dir, lm, 0, <<>>)
       IN IF scan.found
          THEN LET row == e.row[scan.current + 1]
               IN [E |-> [e EXCEPT !.cy = scan.current,
                                   !.cx = editorRowRxToCx(row, strstr(row.render, query)),
                                   !.rowoff = numrows(e)],
                   last_match |-> scan.current, direction |-> dir, reads |-> scan.reads]
          ELSE [E |-> e, last_match |-> lm, direction |-> dir, reads |-> scan.reads]

\* ARROW_LEFT and ARROW_UP without direction = -1
editorFindCallback_forward(e, st, query, key) ==
  IF key = CR \/ key = LF
  THEN [E |-> e, last_match |-> -1, direction |-> 1, reads |-> <<>>]
  ELSE LET lm == IF key \in {ARROW_RIGHT, ARROW_DOWN, ARROW_LEFT, ARROW_UP}
                 THEN st.last_match ELSE -1
           scan == FindLoop(e, query, 1, lm, 0, <<>>)
       IN IF scan.found
          THEN LET row == e.row[scan.current + 1]
               IN [E |-> [e EXCEPT !.cy = scan.current,
                                   !.cx = editorRowRxToCx(row, strstr(row.render, query)),
                                   !.rowoff = numrows(e)],
                   last_match |-> scan.current, direction |-> 1, reads |-> scan.reads]
          ELSE [E |-> e, last_match |-> lm, direction |-> 1, reads |-> scan.reads]

\* the function's static variables travel in st = [last_match, direction]
editorFindCallback(e, st, query, key) ==
  IF key = CR \/ key = LF
  THEN [E |-> e, last_match |-> -1, direction |-> 1, reads |-> <<>>]
  ELSE LET lm == IF key \in {ARROW_RIGHT, ARROW_DOWN, ARROW_LEFT, ARROW_UP}
                 THEN st.last_match ELSE -1
           d0 == IF key \in {ARROW_RIGHT, ARROW_DOWN} THEN 1
                 ELSE IF key \in {ARROW_LEFT, ARROW_UP} THEN -1 ELSE 1
           dir == IF lm = -1 THEN 1 ELSE d0
           scan == FindLoop(e, query, dir, lm, 0, <<>>)
       IN IF scan.found
          THEN LET row == e.row[scan.current + 1]
               IN [E |-> [e EXCEPT !.cy = scan.current,
                                   !.cx = editorRowRxToCx(row, strstr(row.render, query)),
                                   !.rowoff = numrows(e)],
                   last_match |-> scan.current, direction |-> dir, reads |-> scan.reads]
          ELSE [E |-> e, last_match |-> lm, direction |-> dir, reads |-> scan.reads]

(* ------------------------------- output ------------------------------ *)
\* E.rowoff = E.cy for a cursor below the window: the cursor's row becomes the top
editorScroll_top(e) ==
  LET rx == IF e.cy < numrows(e) THEN editorRowCxToRx(e.row[e.cy + 1], e.cx) ELSE 0
      ro1 == IF e.cy < e.rowoff THEN e.cy ELSE e.rowoff
      ro2 == IF e.cy >= ro1 + e.screenrows THEN e.cy ELSE ro1
      co1 == IF rx < e.coloff THEN rx ELSE e.coloff
      co2 == IF rx >= co1 + e.screencols THEN rx - e.screencols + 1 ELSE co1
  IN [e EXCEPT !.rx = rx, !.rowoff = ro2, !.coloff = co2]

\* if (E.cy > E.rowoff + E.screenrows)
editorScroll_m(e) ==
  LET rx == IF e.cy < numrows(e) THEN editorRowCxToRx(e.row[e.cy + 1], e.cx) ELSE 0
      ro1 == IF e.cy < e.rowoff THEN e.cy ELSE e.rowoff
      ro2 == IF e.cy > ro1 + e.screenrows THEN e.cy - e.screenrows + 1 ELSE ro1
      co1 == IF rx < e.coloff THEN rx ELSE e.coloff
      co2 == IF rx >= co1 + e.screencols THEN rx - e.screencols + 1 ELSE co1
  IN [e EXCEPT !.rx = rx, !.rowoff = ro2, !.coloff = co2]

editorScroll(e) ==
  LET rx == IF e.cy < numrows(e) THEN editorRowCxToRx(e.row[e.cy + 1], e.cx) ELSE 0
      ro1 == IF e.cy < e.rowoff THEN e.cy ELSE e.rowoff
      ro2 == IF e.cy >= ro1 + e.screenrows THEN e.cy - e.screenrows + 1 ELSE ro1
      co1 == IF rx < e.coloff THEN rx ELSE e.coloff
      co2 == IF rx >= co1 + e.screencols THEN rx - e.screencols + 1 ELSE co1
  IN [e EXCEPT !.rx = rx, !.rowoff = ro2, !.coloff = co2]

\* the stub of the prototypes section: void editorSetStatusMessage(const char *fmt, ...) {}
editorSetStatusMessage(e, msg) == e

\* what editorDrawRows puts on screen row y: the line E.row[filerow], the welcome
\* banner or a tilde
DrawRow(e, y) ==
  IF y >= numrows(e)
  THEN [kind |-> IF numrows(e) = 0 /\ y = e.screenrows \div 3 THEN "welcome" ELSE "tilde",
        filerow |-> -1]
  ELSE [kind |-> "row", filerow |-> y + e.rowoff]

\* for (y = 0; y < E.screenrows; y++)
editorDrawRows(e) == [y1 \in 1..e.screenrows |-> DrawRow(e, y1 - 1)]

\* every E.row[filerow] of the frame is a line of the document
DrawInBounds(e) ==
  \A y1 \in 1..e.screenrows : editorDrawRows(e)[y1].filerow < numrows(e)

\* where a redraw ends: at the read of the next key, or, when editorDrawRows read
\* rsize and render past the end of the row array, either there (the frame shows
\* whatever was read) or in a fault of that read
RedrawEnds(e, next) == IF DrawInBounds(e) THEN {next} ELSE {next, "fault"}

(* -------------------------------- input ------------------------------ *)
editorMoveCursor(e, k) ==
  LET hasrow == e.cy < numrows(e)
      e1 == CASE k = ARROW_LEFT ->
                   IF e.cx # 0 THEN [e EXCEPT !.cx = e.cx - 1]
                   ELSE IF e.cy > 0
                        THEN [e EXCEPT !.cy = e.cy - 1, !.cx = size(e.row[e.cy])]
                        ELSE e
              [] k = ARROW_RIGHT ->
                   IF hasrow /\ e.cx < size(e.row[e.cy + 1]) THEN [e EXCEPT !.cx = e.cx + 1]
                   ELSE IF hasrow /\ e.cx = size(e.row[e.cy + 1])
                        THEN [e EXCEPT !.cy = e.cy + 1, !.cx = 0]
                        ELSE e
              [] k = ARROW_UP ->
                   IF e.cy # 0 THEN [e EXCEPT !.cy = e.cy - 1] ELSE e
              [] k = ARROW_DOWN ->
                   IF e.cy < numrows(e) THEN [e EXCEPT !.cy = e.cy + 1] ELSE e
              [] OTHER -> e
      rowlen == IF e1.cy >= numrows(e1) THEN 0 ELSE size(e1.row[e1.cy + 1])
  IN IF e1.cx > rowlen THEN [e1 EXCEPT !.cx = rowlen] ELSE e1

\* int times = E.screenrows; while (times--) editorMoveCursor(...)
RECURSIVE MoveTimes(_, _, _)
MoveTimes(e, k, times) ==
  IF times = 0 THEN e ELSE MoveTimes(editorMoveCursor(e, k), k, times - 1)

PageKey(e, c) ==
  LET e1 == IF c = PAGE_UP THEN [e EXCEPT !.cy = e.rowoff]
            ELSE LET cy1 == e.rowoff + e.screenrows - 1
                 IN [e EXCEPT !.cy = IF cy1 > numrows(e) THEN numrows(e) ELSE cy1]
  IN MoveTimes(e1, IF c = PAGE_UP THEN ARROW_UP ELSE ARROW_DOWN, e.screenrows)

\* the cases of editorProcessKeypress that act on E alone
KeyEffect(e, c) ==
  CASE c = CR -> editorInsertNewline(e)
    [] c = HOME_KEY -> [e EXCEPT !.cx = 0]
    [] c = END_KEY ->
         IF e.cy < numrows(e) THEN [e EXCEPT !.cx = size(e.row[e.cy + 1])] ELSE e
    [] c \in {BACKSPACE, CTRL_H} -> editorDelChar(e)
    [] c = DEL_KEY -> editorDelChar(editorMoveCursor(e, ARROW_RIGHT))
    [] c \in {PAGE_UP, PAGE_DOWN} -> PageKey(e, c)
    [] c \in {ARROW_UP, ARROW_DOWN, ARROW_LEFT, ARROW_RIGHT} -> editorMoveCursor(e, c)
    [] c \in {CTRL_L, ESC} -> e
    [] OTHER -> editorInsertChar(e, c)

\* iscntrl() in the C locale
iscntrl(c) == (c >= 0 /\ c < 32) \/ c = 127

\* char c as the int that "return c" makes of it: char is signed on some builds and
\* unsigned on others
CharToInt(b, signedChar) == IF signedChar /\ b >= 128 THEN b - 256 ELSE b

\* read(STDIN_FILENO, &x, 1): one byte, or nothing when the read times out
ReadByte(in) ==
  IF Len(in) = 0 THEN [got |-> FALSE, byte |-> NoByte, rest |-> in]
  ELSE [got |-> Head(in) # NoByte, byte |-> Head(in), rest |-> Tail(in)]

\* while ((nread = read(STDIN_FILENO, &c, 1)) != 1): waits for the first byte
RECURSIVE AwaitByte(_)
AwaitByte(in) ==
  IF Len(in) > 0 /\ Head(in) = NoByte THEN AwaitByte(Tail(in)) ELSE in

\* editorReadKey returning its first byte, whatever follows an escape
editorReadKey_nodecode(in, signedChar) ==
  LET r0 == ReadByte(AwaitByte(in))
  IN [key |-> CharToInt(r0.byte, signedChar), rest |-> r0.rest]

\* the key and the input left; called with a byte still to come
editorReadKey(in, signedChar) ==
  LET r0 == ReadByte(AwaitByte(in))
      r1 == ReadByte(r0.rest)
      r2 == ReadByte(r1.rest)
      r3 == ReadByte(r2.rest)
      esc(r) == [key |-> ESC, rest |-> r.rest]
  IN IF r0.byte # ESC THEN [key |-> CharToInt(r0.byte, signedChar), rest |-> r0.rest]
     ELSE IF ~r1.got THEN esc(r1)
     ELSE IF ~r2.got THEN esc(r2)
     ELSE IF r1.byte = CH_LBRACKET
          THEN IF r2.byte >= CH_0 /\ r2.byte <= CH_0 + 9
               THEN IF ~r3.got THEN esc(r3)
                    ELSE IF r3.byte = CH_TILDE
                         THEN CASE r2.byte = CH_0 + 1 -> [key |-> HOME_KEY, rest |-> r3.rest]
                                [] r2.byte = CH_0 + 3 -> [key |-> DEL_KEY, rest |-> r3.rest]
                                [] r2.byte = CH_0 + 4 -> [key |-> END_KEY, rest |-> r3.rest]
                                [] r2.byte = CH_0 + 5 -> [key |-> PAGE_UP, rest |-> r3.rest]
                                [] r2.byte = CH_0 + 6 -> [key |-> PAGE_DOWN, rest |-> r3.rest]
                                [] r2.byte = CH_0 + 7 -> [key |-> HOME_KEY, rest |-> r3.rest]
                                [] r2.byte = CH_0 + 8 -> [key |-> END_KEY, rest |-> r3.rest]
                                [] OTHER -> esc(r3)
                         ELSE esc(r3)
               ELSE CASE r2.byte = CH_A -> [key |-> ARROW_UP, rest |-> r2.rest]
                      [] r2.byte = CH_B -> [key |-> ARROW_DOWN, rest |-> r2.rest]
                      [] r2.byte = CH_C -> [key |-> ARROW_RIGHT, rest |-> r2.rest]
                      [] r2.byte = CH_D -> [key |-> ARROW_LEFT, rest |-> r2.rest]
                      [] r2.byte = CH_H -> [key |-> HOME_KEY, rest |-> r2.rest]
                      [] r2.byte = CH_F -> [key |-> END_KEY, rest |-> r2.rest]
                      [] OTHER -> esc(r2)
          ELSE IF r1.byte = CH_O
               THEN CASE r2.byte = CH_H -> [key |-> HOME_KEY, rest |-> r2.rest]
                      [] r2.byte = CH_F -> [key |-> END_KEY, rest |-> r2.rest]
                      [] OTHER -> esc(r2)
               ELSE esc(r2)

(* ------------------------------- state ------------------------------- *)
VARIABLES
  E,           \* struct editorConfig E
  quit_times,  \* static of editorProcessKeypress
  last_match,  \* static of editorFindCallback
  direction,   \* static of editorFindCallback
  pc,          \* where main is: "start", "refresh", "key", "prompt_refresh",
               \* "prompt_key", "exit", "fault" after a redraw that read past the
               \* row array ("map": the coordinate mapper on its own)
  key,         \* c of editorProcessKeypress, 0 when no key is being handled
  prompt,      \* the caller inside editorPrompt: "none", "find", "save"
  buf,         \* buf of editorPrompt
  pkey,        \* c of editorPrompt, 0 when none was read since the last redraw
  saved,       \* save_cx, save_cy, save_coloff, save_rowoff of editorFind
  arg,         \* argv[1] and the file it names, until main has used it
  outcome,     \* what open, ftruncate and write returned to editorSave in the last
               \* step, "none" when the step was no save
  written,     \* the bytes editorSave handed to write() in the last step
  reads,       \* the row indices the last search scan used
  calls,       \* the calls of the prompt's callback in the last step: query and key
  stdin,       \* what read() on the terminal will return next: bytes, and NoByte
               \* where the read times out
  quits,       \* how many times Ctrl-Q has been pressed since the last other key of
               \* the main loop
  exitcode     \* -1 while running, else the status passed to exit()

vars == <<E, quit_times, last_match, direction, pc, key, prompt, buf, pkey,
          saved, arg, outcome, written, reads, calls, stdin, quits, exitcode>>

initEditor(rows, cols) ==
  [cx |-> 0, cy |-> 0, rx |-> 0, rowoff |-> 0, coloff |-> 0,
   screenrows |-> rows, screencols |-> cols,
   row |-> <<>>, dirty |-> 0, filename |-> NULL, statusmsg |-> <<>>]

NoArg == [present |-> FALSE, readable |-> FALSE, bytes |-> <<>>]
Args ==
  {NoArg, [present |-> TRUE, readable |-> FALSE, bytes |-> <<>>]}
  \cup {[present |-> TRUE, readable |-> TRUE, bytes |-> b] :
          b \in SeqsUpTo(FileBytes, MaxFileLen)}
\* the name given on the command line
ArgName == <<LETTER_F>>

NoSave == [cx |-> 0, cy |-> 0, coloff |-> 0, rowoff |-> 0]

InitFrame(rowset, colset) ==
  /\ \E r \in rowset, c \in colset : E = initEditor(r, c)
  /\ arg \in Args
  /\ quit_times = KILO_QUIT_TIMES
  /\ last_match = -1
  /\ direction = 1
  /\ pc = "start"
  /\ key = 0
  /\ prompt = "none"
  /\ buf = <<>>
  /\ pkey = 0
  /\ saved = NoSave
  /\ outcome = "none"
  /\ written = NoWrite
  /\ reads = <<>>
  /\ calls = <<>>
  /\ stdin = <<>>
  /\ quits = 0
  /\ exitcode = -1

\* a terminal of ScreenRows + 2 rows and ScreenCols columns
Init == InitFrame({ScreenRows}, {ScreenCols})

\* the cursor is on a line of the document or on the line after the last one.
\* Every handler and editorScroll index E.row[E.cy] and chars[E.cx] on that footing;
\* with the cursor anywhere else the access is out of bounds and what follows is
\* left open: no step is taken from such a state.
CursorValid(e) ==
  /\ e.cy >= 0 /\ e.cy <= numrows(e)
  /\ e.cx >= 0
  /\ e.cx <= (IF e.cy < numrows(e) THEN size(e.row[e.cy + 1]) ELSE 0)

\* every E.row[current] of the last search scan was a line of the document. After a
\* read outside the row array what follows is left open: no step is taken from such
\* a state.
ScanInBounds(e, rd) == \A i \in DOMAIN rd : rd[i] >= 0 /\ rd[i] < numrows(e)

\* the cut-off of the model: documents and the dirty counter stay within the bounds
Fits(e) ==
  /\ numrows(e) <= MaxRows
  /\ \A i \in 1..numrows(e) : size(e.row[i]) <= MaxLen
  /\ e.dirty <= MaxDirty

(* ------------------------------- main -------------------------------- *)
StartNoFile ==
  /\ pc = "start" /\ ~arg.present
  /\ pc' = "refresh"
  /\ E' = editorSetStatusMessage(E, "HELP")
  /\ UNCHANGED <<quit_times, last_match, direction, key, prompt, buf, pkey,
                 saved, arg, outcome, written, reads, calls, stdin, quits, exitcode>>

StartOpen ==
  /\ pc = "start" /\ arg.present /\ arg.readable
  /\ E' = editorSetStatusMessage(editorOpen(E, ArgName, arg.bytes), "HELP")
  /\ arg' = NoArg
  /\ pc' = "refresh"
  /\ UNCHANGED <<quit_times, last_match, direction, key, prompt, buf, pkey,
                 saved, outcome, written, reads, calls, stdin, quits, exitcode>>

\* if (!fp) die("fopen");
StartOpenFails ==
  /\ pc = "start" /\ arg.present /\ ~arg.readable
  /\ E' = [E EXCEPT !.filename = ArgName]
  /\ pc' = "exit"
  /\ exitcode' = 1
  /\ UNCHANGED <<quit_times, last_match, direction, key, prompt, buf, pkey,
                 saved, arg, outcome, written, reads, calls, stdin, quits>>

\* editorRefreshScreen of the main loop: editorScroll, then the frame is drawn
Refresh ==
  /\ pc = "refresh" /\ CursorValid(E) /\ ScanInBounds(E, reads)
  /\ E' = editorScroll(E)
  /\ pc' \in RedrawEnds(editorScroll(E), "key")
  /\ key' = 0 /\ pkey' = 0
  /\ outcome' = "none"
  /\ written' = NoWrite
  /\ reads' = <<>>
  /\ calls' = <<>>
  /\ UNCHANGED <<quit_times, last_match, direction, prompt, buf, saved, arg, exitcode,
                 stdin, quits>>

EditKeys ==
  Chars \cup {CR, BACKSPACE, CTRL_H, DEL_KEY, HOME_KEY, END_KEY, PAGE_UP, PAGE_DOWN,
              ARROW_UP, ARROW_DOWN, ARROW_LEFT, ARROW_RIGHT, CTRL_L, ESC}

\* editorProcessKeypress on a key that acts on E alone
KeyEdit ==
  /\ pc = "key" /\ CursorValid(E)
  /\ \E c \in EditKeys :
       \E e1 \in {KeyEffect(E, c)} :
         /\ Fits(e1)
         /\ E' = e1
         /\ key' = c
  /\ quit_times' = KILO_QUIT_TIMES
  /\ quits' = 0
  /\ pc' = "refresh"
  /\ UNCHANGED <<last_match, direction, prompt, buf, pkey, saved, arg, outcome, written,
                 reads, calls, stdin, exitcode>>

\* case CTRL_KEY('q') without the test of E.dirty and quit_times
KeyQuit_nowarning ==
  /\ pc = "key" /\ CursorValid(E)
  /\ key' = CTRL_Q
  /\ quits' = quits + 1
  /\ pc' = "exit"
  /\ exitcode' = 0
  /\ UNCHANGED <<E, quit_times, last_match, direction, prompt, buf, pkey, saved, arg,
                 outcome, written, reads, calls, stdin>>

KeyQuit ==
  /\ pc = "key" /\ CursorValid(E)
  /\ key' = CTRL_Q
  /\ quits' = quits + 1
  /\ IF E.dirty # 0 /\ quit_times > 0
     THEN /\ E' = editorSetStatusMessage(E, "WARNING")
          /\ quit_times' = quit_times - 1
          /\ pc' = "refresh"
          /\ UNCHANGED exitcode
     ELSE /\ pc' = "exit"
          /\ exitcode' = 0
          /\ UNCHANGED <<E, quit_times>>
  /\ UNCHANGED <<last_match, direction, prompt, buf, pkey, saved, arg, outcome, written,
                 reads, calls, stdin>>

\* Ctrl-S with a file name: editorSave runs to its end
KeySave ==
  /\ pc = "key" /\ CursorValid(E)
  /\ E.filename # NULL
  /\ key' = CTRL_S
  /\ \E o \in SaveOutcomes :
       /\ E' = editorSetStatusMessage(editorSaveWrite(E, o), o)
       /\ outcome' = o
       /\ written' = WriteArg(E, o)
  /\ quit_times' = KILO_QUIT_TIMES
  /\ quits' = 0
  /\ pc' = "refresh"
  /\ UNCHANGED <<last_match, direction, prompt, buf, pkey, saved, arg, reads, calls,
                 stdin, exitcode>>

\* Ctrl-S without a file name: editorSave calls editorPrompt("Save as ...", NULL)
KeySaveAs ==
  /\ pc = "key" /\ CursorValid(E)
  /\ E.filename = NULL
  /\ key' = CTRL_S
  /\ prompt' = "save"
  /\ buf' = <<>>
  /\ quits' = 0
  /\ pc' = "prompt_refresh"
  /\ UNCHANGED <<E, quit_times, last_match, direction, pkey, saved, arg, outcome, written,
                 reads, calls, stdin, exitcode>>

\* Ctrl-F: editorFind saves the cursor and calls editorPrompt("Search: ...", editorFindCallback)
KeyFind ==
  /\ pc = "key" /\ CursorValid(E)
  /\ key' = CTRL_F
  /\ saved' = [cx |-> E.cx, cy |-> E.cy, coloff |-> E.coloff, rowoff |-> E.rowoff]
  /\ prompt' = "find"
  /\ buf' = <<>>
  /\ quits' = 0
  /\ pc' = "prompt_refresh"
  /\ UNCHANGED <<E, quit_times, last_match, direction, pkey, arg, outcome, written, reads,
                 calls, stdin, exitcode>>

(* ------------------------------ prompt ------------------------------- *)
\* the ESC branch returning NULL without its callback(buf, c)
Callback_noesc(e, b, c) ==
  IF prompt = "find" /\ c # ESC
  THEN LET r == editorFindCallback(e, [last_match |-> last_match,
                                       direction |-> direction], b, c)
       IN [E |-> r.E, last_match |-> r.last_match, direction |-> r.direction,
           reads |-> r.reads, calls |-> <<[query |-> b, key |-> c]>>]
  ELSE [E |-> e, last_match |-> last_match, direction |-> direction, reads |-> <<>>,
        calls |-> <<>>]

\* if (callback) callback(buf, c): editorFindCallback for a search, NULL for save-as
Callback(e, b, c) ==
  IF prompt = "find"
  THEN LET r == editorFindCallback(e, [last_match |-> last_match,
                                       direction |-> direction], b, c)
       IN [E |-> r.E, last_match |-> r.last_match, direction |-> r.direction,
           reads |-> r.reads, calls |-> <<[query |-> b, key |-> c]>>]
  ELSE [E |-> e, last_match |-> last_match, direction |-> direction, reads |-> <<>>,
        calls |-> <<>>]

\* top of the loop of editorPrompt: editorSetStatusMessage(prompt, buf); editorRefreshScreen();
PromptRefresh ==
  /\ pc = "prompt_refresh" /\ CursorValid(E) /\ ScanInBounds(E, reads)
  /\ E' = editorScroll(editorSetStatusMessage(E, buf))
  /\ pc' \in RedrawEnds(editorScroll(E), "prompt_key")
  /\ pkey' = 0
  /\ reads' = <<>>
  /\ calls' = <<>>
  /\ UNCHANGED <<quit_times, last_match, direction, key, prompt, buf, saved, arg,
                 outcome, written, exitcode, stdin, quits>>

QueryChars == {LETTER_A}
PromptKeys ==
  QueryChars \cup {TAB, LF, CR, ESC, BACKSPACE, CTRL_H, DEL_KEY, PAGE_UP,
                   ARROW_UP, ARROW_DOWN, ARROW_LEFT, ARROW_RIGHT}

\* the buffer after key c, for the keys that leave the prompt open
PromptBuf(b, c) ==
  IF c \in {DEL_KEY, CTRL_H, BACKSPACE}
  THEN IF Len(b) # 0 THEN SubSeq(b, 1, Len(b) - 1) ELSE b
  ELSE IF c = CR THEN b
  ELSE IF ~iscntrl(c) /\ c < 128 THEN Append(b, c)
  ELSE b

\* a key after which editorPrompt loops: the buffer changes, then the callback runs
PromptType ==
  /\ pc = "prompt_key"
  /\ \E c \in PromptKeys :
       /\ c # ESC
       /\ c = CR => Len(buf) = 0
       /\ Len(PromptBuf(buf, c)) <= MaxBuf
       /\ pkey' = c
       /\ buf' = PromptBuf(buf, c)
       /\ \E r \in {Callback(E, PromptBuf(buf, c), c)} :
             /\ E' = r.E
             /\ last_match' = r.last_match
             /\ direction' = r.direction
             /\ reads' = r.reads
             /\ calls' = r.calls
  /\ pc' = "prompt_refresh"
  /\ UNCHANGED <<quit_times, key, prompt, saved, arg, outcome, written, exitcode, stdin, quits>>

\* editorFind without E.rowoff = save_rowoff
PromptCancel_norowoff ==
  /\ pc = "prompt_key"
  /\ pkey' = ESC
  /\ \E r \in {Callback(editorSetStatusMessage(E, <<>>), buf, ESC)} :
        /\ E' = IF prompt = "find"
                THEN [r.E EXCEPT !.cx = saved.cx, !.cy = saved.cy,
                                 !.coloff = saved.coloff]
                ELSE editorSetStatusMessage(r.E, "Save aborted")
        /\ last_match' = r.last_match
        /\ direction' = r.direction
        /\ reads' = r.reads
        /\ calls' = r.calls
  /\ prompt' = "none"
  /\ buf' = <<>>
  /\ saved' = NoSave
  /\ quit_times' = KILO_QUIT_TIMES
  /\ pc' = "refresh"
  /\ UNCHANGED <<key, arg, outcome, written, exitcode, stdin, quits>>

\* ESC: the callback runs, editorPrompt returns NULL, and the caller finishes
PromptCancel ==
  /\ pc = "prompt_key"
  /\ pkey' = ESC
  /\ \E r \in {Callback(editorSetStatusMessage(E, <<>>), buf, ESC)} :
        /\ E' = IF prompt = "find"
                THEN [r.E EXCEPT !.cx = saved.cx, !.cy = saved.cy,
                                 !.coloff = saved.coloff, !.rowoff = saved.rowoff]
                ELSE editorSetStatusMessage(r.E, "Save aborted")
        /\ last_match' = r.last_match
        /\ direction' = r.direction
        /\ reads' = r.reads
        /\ calls' = r.calls
  /\ prompt' = "none"
  /\ buf' = <<>>
  /\ saved' = NoSave
  /\ quit_times' = KILO_QUIT_TIMES
  /\ pc' = "refresh"
  /\ UNCHANGED <<key, arg, outcome, written, exitcode, stdin, quits>>

\* Enter ends a search without the test buflen != 0
PromptCommitFind_anylen ==
  /\ pc = "prompt_key" /\ prompt = "find"
  /\ pkey' = CR
  /\ \E r \in {Callback(editorSetStatusMessage(E, <<>>), buf, CR)} :
        /\ E' = r.E
        /\ last_match' = r.last_match
        /\ direction' = r.direction
        /\ reads' = r.reads
        /\ calls' = r.calls
  /\ prompt' = "none"
  /\ buf' = <<>>
  /\ saved' = NoSave
  /\ quit_times' = KILO_QUIT_TIMES
  /\ pc' = "refresh"
  /\ UNCHANGED <<key, arg, outcome, written, exitcode, stdin, quits>>

\* Enter on a non-empty buffer ends a search
PromptCommitFind ==
  /\ pc = "prompt_key" /\ prompt = "find"
  /\ Len(buf) # 0
  /\ pkey' = CR
  /\ \E r \in {Callback(editorSetStatusMessage(E, <<>>), buf, CR)} :
        /\ E' = r.E
        /\ last_match' = r.last_match
        /\ direction' = r.direction
        /\ reads' = r.reads
        /\ calls' = r.calls
  /\ prompt' = "none"
  /\ buf' = <<>>
  /\ saved' = NoSave
  /\ quit_times' = KILO_QUIT_TIMES
  /\ pc' = "refresh"
  /\ UNCHANGED <<key, arg, outcome, written, exitcode, stdin, quits>>

\* Enter on a non-empty buffer gives editorSave its file name, and the save goes on
PromptCommitSave ==
  /\ pc = "prompt_key" /\ prompt = "save"
  /\ Len(buf) # 0
  /\ pkey' = CR
  /\ \E o \in SaveOutcomes :
       LET e1 == [E EXCEPT !.filename = buf]
       IN /\ E' = editorSetStatusMessage(editorSaveWrite(e1, o), o)
          /\ outcome' = o
          /\ written' = WriteArg(e1, o)
  /\ prompt' = "none"
  /\ buf' = <<>>
  /\ quit_times' = KILO_QUIT_TIMES
  /\ pc' = "refresh"
  /\ UNCHANGED <<last_match, direction, key, saved, arg, reads, calls, stdin, quits, exitcode>>

Next ==
  \/ StartNoFile
  \/ StartOpen
  \/ StartOpenFails
  \/ Refresh
  \/ KeyEdit
  \/ KeyQuit
  \/ KeySave
  \/ KeySaveAs
  \/ KeyFind
  \/ PromptRefresh
  \/ PromptType
  \/ PromptCancel
  \/ PromptCommitFind
  \/ PromptCommitSave

Spec == Init /\ [][Next]_vars

(* ---------------- a terminal of two rows: no text row ----------------- *)
\* initEditor: E.screenrows = ws_row - 2 = 0
InitNoFrame == InitFrame({0}, {ScreenCols})
SpecNoFrame == InitNoFrame /\ [][Next]_vars

(* ---------------- the coordinate mapper on its own -------------------- *)
\* one line of up to MapLen bytes; pc is "map", then "cx2rx" after editorRowCxToRx,
\* "rx2cx" after editorRowRxToCx, "back" after editorRowRxToCx of an rx that
\* editorRowCxToRx returned (saved.cx keeps the cx it was given)
InitMap ==
  /\ \E line \in SeqsUpTo(Chars, MapLen) :
       E = [initEditor(ScreenRows, ScreenCols) EXCEPT !.row = <<NewRow(line)>>]
  /\ arg = NoArg
  /\ quit_times = KILO_QUIT_TIMES
  /\ last_match = -1
  /\ direction = 1
  /\ pc = "map"
  /\ key = 0
  /\ prompt = "none"
  /\ buf = <<>>
  /\ pkey = 0
  /\ saved = NoSave
  /\ outcome = "none"
  /\ written = NoWrite
  /\ reads = <<>>
  /\ calls = <<>>
  /\ stdin = <<>>
  /\ quits = 0
  /\ exitcode = -1

MapCxToRx ==
  /\ pc \in {"map", "cx2rx", "rx2cx", "back"}
  /\ \E cx \in 0..size(E.row[1]) :
       /\ E' = [E EXCEPT !.cx = cx, !.rx = editorRowCxToRx(E.row[1], cx)]
       /\ saved' = [saved EXCEPT !.cx = cx]
  /\ pc' = "cx2rx"
  /\ UNCHANGED <<quit_times, last_match, direction, key, prompt, buf, pkey, arg,
                 outcome, written, reads, calls, stdin, quits, exitcode>>

MapRxToCx ==
  /\ pc \in {"map", "cx2rx", "rx2cx", "back"}
  /\ \E rx \in 0..(rsize(E.row[1]) + 1) :
       E' = [E EXCEPT !.rx = rx, !.cx = editorRowRxToCx(E.row[1], rx)]
  /\ saved' = NoSave
  /\ pc' = "rx2cx"
  /\ UNCHANGED <<quit_times, last_match, direction, key, prompt, buf, pkey, arg,
                 outcome, written, reads, calls, stdin, quits, exitcode>>

MapBack ==
  /\ pc = "cx2rx"
  /\ E' = [E EXCEPT !.cx = editorRowRxToCx(E.row[1], E.rx)]
  /\ pc' = "back"
  /\ UNCHANGED <<quit_times, last_match, direction, key, prompt, buf, pkey, saved, arg,
                 outcome, written, reads, calls, stdin, quits, exitcode>>

NextMap == MapCxToRx \/ MapRxToCx \/ MapBack

SpecMap == InitMap /\ [][NextMap]_vars

(* ------------------- a file loaded and saved at once ------------------ *)
\* main opens argv[1] (a readable file of up to MaxLoadLen bytes, kept in arg), then
\* Ctrl-S is the first key: pc is "start", "opened" after editorOpen, "saved" after
\* editorSave
InitLoadSave ==
  /\ E = initEditor(ScreenRows, ScreenCols)
  /\ \E b \in SeqsUpTo(FileBytes, MaxLoadLen) :
       arg = [present |-> TRUE, readable |-> TRUE, bytes |-> b]
  /\ quit_times = KILO_QUIT_TIMES
  /\ last_match = -1
  /\ direction = 1
  /\ pc = "start"
  /\ key = 0
  /\ prompt = "none"
  /\ buf = <<>>
  /\ pkey = 0
  /\ saved = NoSave
  /\ outcome = "none"
  /\ written = NoWrite
  /\ reads = <<>>
  /\ calls = <<>>
  /\ stdin = <<>>
  /\ quits = 0
  /\ exitcode = -1

LoadOpen ==
  /\ pc = "start"
  /\ E' = editorScroll(editorSetStatusMessage(editorOpen(E, ArgName, arg.bytes), "HELP"))
  /\ pc' = "opened"
  /\ UNCHANGED <<quit_times, last_match, direction, key, prompt, buf, pkey,
                 saved, arg, outcome, written, reads, calls, stdin, quits, exitcode>>

LoadSave ==
  /\ pc = "opened"
  /\ key' = CTRL_S
  /\ \E o \in SaveOutcomes :
       /\ E' = editorSetStatusMessage(editorSaveWrite(E, o), o)
       /\ outcome' = o
       /\ written' = WriteArg(E, o)
  /\ pc' = "saved"
  /\ UNCHANGED <<quit_times, last_match, direction, prompt, buf, pkey, saved, arg,
                 reads, calls, stdin, quits, exitcode>>

NextLoadSave == LoadOpen \/ LoadSave

SpecLoadSave == InitLoadSave /\ [][NextLoadSave]_vars

(* -------------------------- a search on its own ----------------------- *)
\* Ctrl-F has just been pressed (editorFind has saved the cursor and called
\* editorPrompt) on a loaded document of up to FindRows lines out of FindLines, with
\* the cursor anywhere in it and last_match as an earlier search may have left it
FindLines ==
  {<<>>, <<LETTER_A, LETTER_B, LETTER_C>>, <<TAB, LETTER_A, LETTER_B>>,
   <<LETTER_X, LETTER_Y, LETTER_Z>>, <<LETTER_C, LETTER_A, LETTER_B>>}

InitFind ==
  /\ \E doc \in SeqsUpTo(FindLines, FindRows) :
       \E cy \in 0..Len(doc) :
         \E cx \in 0..(IF cy < Len(doc) THEN Len(doc[cy + 1]) ELSE 0) :
           /\ E = editorScroll([initEditor(ScreenRows, ScreenCols) EXCEPT
                                 !.row = [i \in 1..Len(doc) |-> NewRow(doc[i])],
                                 !.filename = ArgName, !.cx = cx, !.cy = cy])
           /\ saved = [cx |-> cx, cy |-> cy, coloff |-> E.coloff, rowoff |-> E.rowoff]
           /\ last_match \in -1..(Len(doc) - 1)
  /\ arg = NoArg
  /\ quit_times = KILO_QUIT_TIMES
  /\ direction = 1
  /\ pc = "prompt_refresh"
  /\ key = CTRL_F
  /\ prompt = "find"
  /\ buf = <<>>
  /\ pkey = 0
  /\ outcome = "none"
  /\ written = NoWrite
  /\ reads = <<>>
  /\ calls = <<>>
  /\ stdin = <<>>
  /\ quits = 0
  /\ exitcode = -1

\* the keys typed into the search: bytes of the query, and keys that leave the prompt
\* open without being arrows
FindKeys == {LETTER_A, LETTER_B, LETTER_Z, BACKSPACE, TAB}

\* a key after which editorPrompt loops, as PromptType, with the keys of FindKeys
FindType ==
  /\ pc = "prompt_key" /\ prompt = "find"
  /\ \E c \in FindKeys :
       /\ Len(PromptBuf(buf, c)) <= FindBuf
       /\ pkey' = c
       /\ buf' = PromptBuf(buf, c)
       /\ \E r \in {Callback(E, PromptBuf(buf, c), c)} :
             /\ E' = r.E
             /\ last_match' = r.last_match
             /\ direction' = r.direction
             /\ reads' = r.reads
             /\ calls' = r.calls
  /\ pc' = "prompt_refresh"
  /\ UNCHANGED <<quit_times, key, prompt, saved, arg, outcome, written, exitcode, stdin, quits>>

\* an arrow key in the search: the buffer stays, the callback moves on from the
\* last match
FindArrows == {ARROW_LEFT, ARROW_RIGHT, ARROW_UP, ARROW_DOWN}

FindArrow ==
  /\ pc = "prompt_key" /\ prompt = "find"
  /\ \E c \in FindArrows :
       /\ pkey' = c
       /\ buf' = PromptBuf(buf, c)
       /\ \E r \in {Callback(E, PromptBuf(buf, c), c)} :
             /\ E' = r.E
             /\ last_match' = r.last_match
             /\ direction' = r.direction
             /\ reads' = r.reads
             /\ calls' = r.calls
  /\ pc' = "prompt_refresh"
  /\ UNCHANGED <<quit_times, key, prompt, saved, arg, outcome, written, exitcode,
                 stdin, quits>>

NextFind == PromptRefresh \/ FindType \/ FindArrow

SpecFind == InitFind /\ [][NextFind]_vars

(* ------------------- line edits on larger documents ------------------ *)
\* the main loop is about to read a key, on a loaded document of up to EditRows
\* lines of up to EditLen bytes out of EditChars, with the cursor anywhere in it
EditChars == {LETTER_A, LETTER_B}

InitEdit ==
  /\ \E doc \in SeqsUpTo(SeqsUpTo(EditChars, EditLen), EditRows) :
       \E cy \in 0..Len(doc) :
         \E cx \in 0..(IF cy < Len(doc) THEN Len(doc[cy + 1]) ELSE 0) :
           E = editorScroll([initEditor(ScreenRows, ScreenCols) EXCEPT
                               !.row = [i \in 1..Len(doc) |-> NewRow(doc[i])],
                               !.filename = ArgName, !.cx = cx, !.cy = cy])
  /\ arg = NoArg
  /\ quit_times = KILO_QUIT_TIMES
  /\ last_match = -1
  /\ direction = 1
  /\ pc = "key"
  /\ key = 0
  /\ prompt = "none"
  /\ buf = <<>>
  /\ pkey = 0
  /\ saved = NoSave
  /\ outcome = "none"
  /\ written = NoWrite
  /\ reads = <<>>
  /\ calls = <<>>
  /\ stdin = <<>>
  /\ quits = 0
  /\ exitcode = -1

\* the keys that split and join lines
LineKeys == {CR, BACKSPACE, CTRL_H, DEL_KEY}

\* KeyEdit with the keys of LineKeys, up to MaxDirty changes
LineEdit ==
  /\ pc = "key" /\ CursorValid(E)
  /\ \E c \in LineKeys :
       \E e1 \in {KeyEffect(E, c)} :
         /\ e1.dirty <= MaxDirty
         /\ E' = e1
         /\ key' = c
  /\ quit_times' = KILO_QUIT_TIMES
  /\ quits' = 0
  /\ pc' = "refresh"
  /\ UNCHANGED <<last_match, direction, prompt, buf, pkey, saved, arg, outcome, written,
                 reads, calls, stdin, exitcode>>

NextEdit == Refresh \/ LineEdit

SpecEdit == InitEdit /\ [][NextEdit]_vars

(* ---------------------- a prompt fed from the terminal ---------------- *)
\* a prompt (save-as or search) has just been drawn over an empty document, and the
\* terminal will serve up to MaxStdin reads out of StdinItems
StdinItems ==
  {ESC, CH_LBRACKET, CH_O, CH_TILDE, CH_A, CH_B, CH_C, CH_D, CH_F, CH_H,
   LETTER_A, BACKSPACE, HIGH_BYTE, NoByte} \cup {CH_0 + d : d \in 0..9}

InitKeys ==
  /\ stdin \in SeqsUpTo(StdinItems, MaxStdin)
  /\ quits = 0
  /\ E = editorScroll(initEditor(ScreenRows, ScreenCols))
  /\ prompt \in {"save", "find"}
  /\ key = (IF prompt = "save" THEN CTRL_S ELSE CTRL_F)
  /\ saved = (IF prompt = "save" THEN NoSave
              ELSE [cx |-> E.cx, cy |-> E.cy, coloff |-> E.coloff, rowoff |-> E.rowoff])
  /\ arg = NoArg
  /\ quit_times = KILO_QUIT_TIMES
  /\ last_match = -1
  /\ direction = 1
  /\ pc = "prompt_key"
  /\ buf = <<>>
  /\ pkey = 0
  /\ outcome = "none"
  /\ written = NoWrite
  /\ reads = <<>>
  /\ calls = <<>>
  /\ exitcode = -1

\* int c = editorReadKey(), while a byte is still to come: the key, and the input left
KeysRead ==
  IF \E i \in 1..Len(stdin) : stdin[i] # NoByte
  THEN {editorReadKey(stdin, signedChar) : signedChar \in BOOLEAN}
  ELSE {}

\* the buffers key c can leave: iscntrl(c) is undefined for a negative c other than
\* EOF, so either answer
PromptBufs(b, c) ==
  IF c < 0 THEN {b, Append(b, c)} ELSE {PromptBuf(b, c)}

\* PromptType with the key read from the terminal
KeysType ==
  /\ pc = "prompt_key"
  /\ \E k \in KeysRead :
       /\ k.key # ESC
       /\ k.key = CR => Len(buf) = 0
       /\ pkey' = k.key
       /\ stdin' = k.rest
       /\ \E nb \in PromptBufs(buf, k.key) :
            /\ buf' = nb
            /\ \E r \in {Callback(E, nb, k.key)} :
                 /\ E' = r.E
                 /\ last_match' = r.last_match
                 /\ direction' = r.direction
                 /\ reads' = r.reads
                 /\ calls' = r.calls
  /\ pc' = "prompt_refresh"
  /\ UNCHANGED <<quit_times, key, prompt, saved, arg, outcome, written, exitcode, quits>>

\* PromptCancel with ESC read from the terminal
KeysCancel ==
  /\ pc = "prompt_key"
  /\ \E k \in KeysRead :
       /\ k.key = ESC
       /\ pkey' = k.key
       /\ stdin' = k.rest
  /\ \E r \in {Callback(editorSetStatusMessage(E, <<>>), buf, ESC)} :
        /\ E' = IF prompt = "find"
                THEN [r.E EXCEPT !.cx = saved.cx, !.cy = saved.cy,
                                 !.coloff = saved.coloff, !.rowoff = saved.rowoff]
                ELSE editorSetStatusMessage(r.E, "Save aborted")
        /\ last_match' = r.last_match
        /\ direction' = r.direction
        /\ reads' = r.reads
        /\ calls' = r.calls
  /\ prompt' = "none"
  /\ buf' = <<>>
  /\ saved' = NoSave
  /\ quit_times' = KILO_QUIT_TIMES
  /\ pc' = "refresh"
  /\ UNCHANGED <<key, arg, outcome, written, exitcode, quits>>

NextKeys == PromptRefresh \/ KeysType \/ KeysCancel

SpecKeys == InitKeys /\ [][NextKeys]_vars

(* ------------------------------ claims ------------------------------- *)
\* the states that follow an editorRefreshScreen, before the next key is read
AfterRedraw == pc \in {"key", "prompt_key"}

\* C1: after every redraw of a frame with at least one row and one column the cursor
\* is inside the window: rowoff <= cy < rowoff + screenrows and
\* coloff <= rx < coloff + screencols.
C1_CursorInViewport ==
  (AfterRedraw /\ E.screenrows >= 1 /\ E.screencols >= 1) =>
    /\ E.rowoff <= E.cy /\ E.cy < E.rowoff + E.screenrows
    /\ E.coloff <= E.rx /\ E.rx < E.coloff + E.screencols

\* a redraw inside a search, after a hit on the second line scrolled the window to it
C1_Witness ==
  /\ pc = "prompt_key" /\ prompt = "find"
  /\ last_match = 1 /\ E.cy = 1 /\ E.rowoff = 1

\* C2: in every reachable state 0 <= cy <= numrows and 0 <= cx <= the length of line
\* cy (0 on the line after the last one).
C2_CursorInRange == CursorValid(E)

\* the tab expansion of a line, told from the end: a tab becomes the spaces up to the
\* next multiple of the tab-stop width, any other byte is copied
RECURSIVE TabExpand(_)
TabExpand(chars) ==
  IF Len(chars) = 0 THEN <<>>
  ELSE LET before == TabExpand(SubSeq(chars, 1, Len(chars) - 1))
           last == chars[Len(chars)]
       IN IF last = TAB
          THEN before \o [i \in 1..(KILO_TAB_STOP - (Len(before) % KILO_TAB_STOP)) |-> SPACE]
          ELSE Append(before, last)

\* C3: in every reachable state every line's rendered form is the tab expansion of
\* its raw bytes as they are now, and is at least as long as the raw bytes.
C3_RenderCurrent ==
  pc # "map" =>
    \A i \in 1..numrows(E) :
      /\ E.row[i].render = TabExpand(E.row[i].chars)
      /\ rsize(E.row[i]) >= size(E.row[i])

\* Enter typed between a tab and a letter: both halves of the split line
C3_Witness ==
  /\ pc = "refresh" /\ key = CR
  /\ numrows(E) = 2
  /\ E.row[1].chars = <<TAB>> /\ E.row[2].chars = <<LETTER_A>>
  /\ E.cy = 1 /\ E.cx = 0

\* C4: editorRowRxToCx undoes editorRowCxToRx for every cx of the line, and for every
\* rx it returns the greatest cx whose rendered column is at most rx: the line length
\* once rx is at or past the end of the rendered line.
C4_MapRoundTrip ==
  /\ pc = "back" => E.cx = saved.cx
  /\ pc = "rx2cx" =>
       /\ E.cx >= 0 /\ E.cx <= size(E.row[1])
       /\ editorRowCxToRx(E.row[1], E.cx) <= E.rx
       /\ \A cx \in 0..size(E.row[1]) :
            editorRowCxToRx(E.row[1], cx) <= E.rx => cx <= E.cx
       /\ E.rx >= rsize(E.row[1]) => E.cx = size(E.row[1])

\* the way back from the column after a tab that follows a letter
C4_Witness ==
  /\ pc = "back"
  /\ E.row[1].chars = <<LETTER_A, TAB, LETTER_A>>
  /\ saved.cx = 2 /\ E.rx = KILO_TAB_STOP /\ E.cx = 2

\* C5: editorRowCxToRx(line, cx) is the length of the tab expansion of the first cx
\* bytes: the place in the rendered line where byte cx starts, the rendered length
\* for cx at the end, and 8 after a tab at column 0.
C5_RxIsExpandedLength ==
  pc = "cx2rx" =>
    LET row == E.row[1]
    IN /\ E.rx = Len(TabExpand(SubSeq(row.chars, 1, E.cx)))
       /\ SubSeq(row.render, 1, E.rx) = TabExpand(SubSeq(row.chars, 1, E.cx))
       /\ E.cx = size(row) => E.rx = rsize(row)
       /\ (E.cx < size(row) /\ row.chars[E.cx + 1] # TAB) =>
            row.render[E.rx + 1] = row.chars[E.cx + 1]
       /\ (E.cx = 1 /\ row.chars[1] = TAB) =>
            /\ E.rx = 8
            /\ SubSeq(row.render, 1, 8) = [i \in 1..8 |-> SPACE]

C5_Witness ==
  /\ pc = "cx2rx"
  /\ E.row[1].chars = <<TAB, LETTER_A>>
  /\ E.cx = 1 /\ E.rx = 8

\* a step of editorProcessKeypress that changed the lines of the document
EditStep == pc = "key" /\ pc' = "refresh" /\ E'.row # E.row

\* the two edits that pass through two row operations: a byte typed on the line after
\* the last one (editorInsertRow, editorRowInsertChar), and a delete at column 0 that
\* joins line cy to the line above (editorRowAppendString, editorDelRow); DEL joins
\* from the end of the line above
TwoRowOps ==
  \/ key' \notin {CR, BACKSPACE, CTRL_H, DEL_KEY} /\ E.cy = numrows(E)
  \/ key' \in {BACKSPACE, CTRL_H} /\ E.cx = 0
  \/ key' = DEL_KEY /\ E.cx = size(E.row[E.cy + 1])

\* C6: every edit operation that changes the document (insertChar, insertNewline,
\* deleteChar) raises the dirty counter by exactly one, typing on the line after the
\* last one and deleting at column 0 of a line below the first included.
C6_DirtyPlusOne == [][EditStep => E'.dirty = E.dirty + 1]_vars

\* C6 as the code has it: an edit that changes the document raises the dirty counter
\* by one, except that typing on the line after the last one and joining two lines
\* raise it by two.
C6_DirtyPlusOneOrTwo ==
  [][EditStep => E'.dirty = E.dirty + (IF TwoRowOps THEN 2 ELSE 1)]_vars

\* a byte typed into the empty document of an editor started without a file
C6_Witness ==
  /\ pc = "refresh" /\ key = LETTER_A
  /\ E.filename = NULL
  /\ numrows(E) = 1 /\ E.row[1].chars = <<LETTER_A>>
  /\ E.cy = 0 /\ E.cx = 1
  /\ E.dirty = 2

\* C7: the dirty counter is 0 right after a file is loaded, nonzero after an
\* insertChar, never goes from nonzero to 0 by an edit, a cursor move, a failed save
\* or a search, and is 0 right after a successful save.
C7_DirtyLifecycle ==
  [][/\ (pc = "start" /\ pc' = "refresh" /\ arg.present) => E'.dirty = 0
     /\ (pc = "key" /\ pc' = "refresh" /\ key' \in Chars) => E'.dirty # 0
     /\ (E.dirty # 0 /\ E'.dirty = 0) => outcome' = "written"
     /\ outcome' = "written" => E'.dirty = 0
     /\ (E.dirty # 0 /\ outcome' \in SaveOutcomes \ {"written"}) => E'.dirty = E.dirty
    ]_vars

\* a loaded file of at most MaxFileLen bytes, edited into two lines and saved
C7_Witness ==
  /\ pc = "refresh" /\ key = CTRL_S
  /\ outcome = "written"
  /\ E.filename = ArgName
  /\ written = <<LETTER_A, LF, LETTER_A, LF>>
  /\ E.dirty = 0

\* the lines of the document as raw bytes
Doc(e) == [i \in 1..numrows(e) |-> e.row[i].chars]

\* insertChar(c) and then deleteChar, from the state the next key finds
InsertThenDelete(c) == editorDelChar(editorInsertChar(E, c))

\* C8: for every document and every valid cursor, the line after the last one
\* included, insertChar followed at once by deleteChar gives back the document and
\* the cursor; only the dirty counter differs.
C8_InsertDeleteRestores ==
  (pc = "key" /\ CursorValid(E)) =>
    \A c \in Chars :
      /\ Doc(InsertThenDelete(c)) = Doc(E)
      /\ InsertThenDelete(c).cx = E.cx
      /\ InsertThenDelete(c).cy = E.cy

\* C8 as the code has it: with the cursor on a line of the document everything but
\* the dirty counter is given back; with the cursor on the line after the last one
\* the cursor is given back and the document keeps the empty line that insertChar
\* appended.
C8_InsertDeleteRestoresOnLine ==
  (pc = "key" /\ CursorValid(E)) =>
    \A c \in Chars :
      /\ InsertThenDelete(c).cx = E.cx
      /\ InsertThenDelete(c).cy = E.cy
      /\ InsertThenDelete(c).dirty > E.dirty
      /\ E.cy < numrows(E) =>
           [InsertThenDelete(c) EXCEPT !.dirty = E.dirty] = E
      /\ E.cy = numrows(E) =>
           Doc(InsertThenDelete(c)) = Append(Doc(E), <<>>)

\* the cursor below a one-line document: the pair leaves a second, empty line
C8_Witness ==
  /\ pc = "key"
  /\ numrows(E) = 1 /\ E.row[1].chars = <<TAB>>
  /\ E.cy = 1 /\ E.cx = 0
  /\ Doc(InsertThenDelete(LETTER_A)) = <<(<<TAB>>), <<>>>>

\* the file loaded and then written by a save that reached write()
LoadedAndSaved == pc = "saved" /\ outcome \in {"written", "write_failed"}

EndsWithLF(bytes) == Len(bytes) > 0 /\ bytes[Len(bytes)] = LF

\* C9: a file loaded and saved at once is written byte for byte, with a line feed
\* added at the end when the file did not end with one.
C9_LoadSaveIdentity ==
  LoadedAndSaved =>
    written = (IF EndsWithLF(arg.bytes) THEN arg.bytes ELSE Append(arg.bytes, LF))

\* byte i of the file is a carriage return of a run that ends at a line feed or at
\* the end of the file
TrailingCR(bytes, i) ==
  /\ bytes[i] = CR
  /\ \E j \in i..Len(bytes) :
       /\ \A k \in i..j : bytes[k] = CR
       /\ (j = Len(bytes) \/ bytes[j + 1] = LF)

RECURSIVE DropTrailingCR(_, _)
DropTrailingCR(bytes, i) ==
  IF i > Len(bytes) THEN <<>>
  ELSE IF TrailingCR(bytes, i) THEN DropTrailingCR(bytes, i + 1)
  ELSE <<bytes[i]>> \o DropTrailingCR(bytes, i + 1)

\* C9 as the code has it: what is written is the file without the carriage returns
\* that stand directly before a line feed or at the end of the file, with a line feed
\* added when the file is not empty and does not end with one.
C9_LoadSaveNormalises ==
  LoadedAndSaved =>
    written = DropTrailingCR(arg.bytes, 1)
                \o (IF Len(arg.bytes) > 0 /\ ~EndsWithLF(arg.bytes) THEN <<LF>> ELSE <<>>)

\* a CR LF line: the save writes the line with a bare line feed
C9_Witness ==
  /\ pc = "saved" /\ outcome = "written"
  /\ arg.bytes = <<LETTER_A, CR, LF>>
  /\ written = <<LETTER_A, LF>>

\* C10: every row index a search scan reads is a line of the document, in every
\* search and for every key given to the search callback, also in a search that
\* follows one ended by ESC or Enter with lines deleted in between.
C10_ScanReadsInRange == pc # "map" => ScanInBounds(E, reads)

\* the state in which editorFind has just called editorPrompt: no key of the search
\* has been read
SearchStart == pc = "prompt_refresh" /\ prompt = "find" /\ pkey = 0

\* C11: at the start of every search last_match is -1 and direction is 1 (forward),
\* whether the search before it ended by Enter or by ESC.
C11_SearchStateFresh == SearchStart => (last_match = -1 /\ direction = 1)

\* C12: a search cancelled by ESC leaves cx, cy, rowoff and coloff as they were when
\* the search started, and the lines of the document and the dirty counter as they
\* were: editorFind saves the four at the start, no step of the search changes what
\* it saved, the lines or the dirty counter, and ESC puts the four back.
C12_CancelRestores ==
  [][/\ (pc = "key" /\ prompt' = "find") =>
          /\ saved' = [cx |-> E.cx, cy |-> E.cy, coloff |-> E.coloff, rowoff |-> E.rowoff]
          /\ E' = E
     /\ (prompt = "find" /\ prompt' = "find") => saved' = saved
     /\ prompt = "find" => (E'.row = E.row /\ E'.dirty = E.dirty)
     /\ (prompt = "find" /\ pkey' = ESC) =>
          /\ prompt' = "none"
          /\ E'.cx = saved.cx /\ E'.cy = saved.cy
          /\ E'.rowoff = saved.rowoff /\ E'.coloff = saved.coloff
    ]_vars

\* ESC after the search had taken the cursor to a match on the second line: the
\* cursor is back on the first
C12_Witness ==
  /\ pc = "refresh" /\ key = CTRL_F /\ pkey = ESC
  /\ last_match = 1
  /\ E.cy = 0 /\ E.rowoff = 0

\* the rows whose rendered text contains q, and the offset of the first occurrence
Hits(e, q) ==
  {i \in 0..(numrows(e) - 1) :
     \E k \in 0..rsize(e.row[i + 1]) : IsAt(e.row[i + 1].render, q, k)}

LowestHit(e, q) == CHOOSE i \in Hits(e, q) : \A j \in Hits(e, q) : i <= j

FirstAt(hay, q) ==
  CHOOSE k \in 0..Len(hay) : IsAt(hay, q, k) /\ \A j \in 0..(k - 1) : ~IsAt(hay, q, j)

\* a key that starts a search afresh: neither an arrow nor Enter
FreshKey(c) ==
  c \notin {0, CR, LF, ARROW_UP, ARROW_DOWN, ARROW_LEFT, ARROW_RIGHT}

\* C13: a key that starts a fresh search with a non-empty query q puts the cursor on
\* the lowest row whose rendered text contains q, at the raw column of the first
\* occurrence (editorRowRxToCx of its offset), and the next redraw has that row in
\* the window; when no row contains q the key leaves the cursor and the window as
\* they were.
C13_FreshSearchLowestRow ==
  [][/\ (pc = "prompt_key" /\ pc' = "prompt_refresh" /\ prompt = "find"
           /\ FreshKey(pkey') /\ Len(buf') > 0) =>
          IF Hits(E, buf') = {}
          THEN E' = E
          ELSE /\ E'.cy = LowestHit(E, buf')
               /\ E'.cx = editorRowRxToCx(E.row[E'.cy + 1],
                                          FirstAt(E.row[E'.cy + 1].render, buf'))
               /\ E'.row = E.row
     /\ (pc = "prompt_refresh" /\ pc' = "prompt_key" /\ prompt = "find"
           /\ FreshKey(pkey) /\ Len(buf) > 0 /\ Hits(E, buf) # {}) =>
          /\ E'.cy = LowestHit(E, buf)
          /\ E'.rowoff <= E'.cy /\ E'.cy < E'.rowoff + E'.screenrows
    ]_vars

\* lines "abc", tab "ab", "xyz", the search started at (cy 2, cx 0), "ab" typed
C13_Witness ==
  /\ pc = "prompt_refresh" /\ prompt = "find"
  /\ Doc(E) = << <<LETTER_A, LETTER_B, LETTER_C>>, <<TAB, LETTER_A, LETTER_B>>,
                 <<LETTER_X, LETTER_Y, LETTER_Z>> >>
  /\ saved.cy = 2 /\ saved.cx = 0
  /\ buf = <<LETTER_A, LETTER_B>> /\ pkey = LETTER_B
  /\ E.cy = 0 /\ E.cx = 0

\* C14: in a prompt with a callback (a search) the callback is called exactly once
\* for each key read, with the buffer as that key left it and with that key: ESC,
\* the Enter that commits and Enter on an empty buffer included. (The buffer a key
\* left is buf after the step, or buf before it when the key ended the prompt.)
C14_CallbackOncePerKey ==
  [][(pc = "prompt_key" /\ prompt = "find") =>
        calls' = <<[query |-> IF prompt' = "none" THEN buf ELSE buf', key |-> pkey']>>
    ]_vars

\* Enter on an empty buffer: the search stays open and the callback has run
C14_Witness ==
  /\ pc = "prompt_refresh" /\ prompt = "find"
  /\ pkey = CR /\ buf = <<>>
  /\ calls = <<[query |-> <<>>, key |-> CR]>>

\* a step of editorPrompt: one key read and handled
PromptStep == pc = "prompt_key"

\* what the step did with the prompt, for the set of keys that commit
PromptEnds(commitKeys) ==
  /\ prompt' = "none" <=> (pkey' = ESC \/ (pkey' \in commitKeys /\ Len(buf) # 0))
  /\ (prompt = "save" /\ pkey' \in commitKeys /\ Len(buf) # 0) => E'.filename = buf
  /\ (prompt = "save" /\ pkey' = ESC) => E'.filename = NULL
  /\ (prompt = "find" /\ pkey' = ESC) => (E'.cx = saved.cx /\ E'.cy = saved.cy)

RuleBuf(b, k) ==
  IF k \in {DEL_KEY, BACKSPACE, CTRL_H}
  THEN IF Len(b) = 0 THEN b ELSE SubSeq(b, 1, Len(b) - 1)
  ELSE IF k >= 32 /\ k < 127 THEN Append(b, k)
  ELSE b

\* C16: on every key that leaves the prompt open the buffer changes by the rules:
\* DEL, backspace and Ctrl-H remove its last byte (nothing when it is empty), a key
\* is appended exactly when it is a printable, non-control byte below 128, and every
\* other key (navigation keys, control bytes, bytes of 128 and above) leaves it as
\* it was
C16_BufferRules ==
  [][(pc = "prompt_key" /\ prompt' # "none") => buf' = RuleBuf(buf, pkey')]_vars

\* editorSave has returned from if (E.filename == NULL) after ESC at its prompt
SaveAborted == pc = "refresh" /\ key = CTRL_S /\ pkey = ESC

\* C17: a status message that is set becomes the current one: after an aborted save
\* the status message is the text "Save aborted", so it is not empty
C17_MessageTakesEffect == SaveAborted => E.statusmsg # <<>>

\* C18: when the file named on the command line cannot be opened the editor does not
\* terminate
C18_OpenFailureSurvived == (arg.present /\ ~arg.readable) => pc # "exit"

\* the document's lines, the cursor and the dirty counter are the same in e1 and e2
SameDocument(e1, e2) ==
  e1.row = e2.row /\ e1.cx = e2.cx /\ e1.cy = e2.cy /\ e1.dirty = e2.dirty

\* this step ends editorSave with open, ftruncate or write having failed
SaveFails == pc # "refresh" /\ outcome' \in SaveOutcomes \ {"written"}

\* C19: a save that fails, and every step of a save-as that is not a successful
\* write (Ctrl-S opening the prompt, the keys typed, the redraws, ESC), leaves the
\* document's lines, the cursor and the dirty counter as they are and does not end
\* the editor; after ESC at the save-as prompt there is still no file name
C19_FailedSaveChangesNothing ==
  [][/\ SaveFails => (SameDocument(E, E') /\ pc' # "exit")
     /\ ((prompt = "save" \/ prompt' = "save") /\ outcome' # "written")
           => (SameDocument(E, E') /\ pc' # "exit")
     /\ (prompt = "save" /\ pkey' = ESC) => E'.filename = NULL]_vars

\* a save-as of a changed document has ended with write having failed
C19_Witness ==
  /\ pc = "refresh" /\ key = CTRL_S /\ pkey = CR
  /\ outcome = "write_failed"
  /\ E.dirty > 0 /\ E.filename # NULL

\* the escape sequences that are keys
KeySequences ==
  {<<<<ESC, CH_LBRACKET, CH_A>>, ARROW_UP>>,
   <<<<ESC, CH_LBRACKET, CH_B>>, ARROW_DOWN>>,
   <<<<ESC, CH_LBRACKET, CH_C>>, ARROW_RIGHT>>,
   <<<<ESC, CH_LBRACKET, CH_D>>, ARROW_LEFT>>,
   <<<<ESC, CH_LBRACKET, CH_H>>, HOME_KEY>>,
   <<<<ESC, CH_LBRACKET, CH_F>>, END_KEY>>,
   <<<<ESC, CH_LBRACKET, CH_0 + 1, CH_TILDE>>, HOME_KEY>>,
   <<<<ESC, CH_LBRACKET, CH_0 + 7, CH_TILDE>>, HOME_KEY>>,
   <<<<ESC, CH_LBRACKET, CH_0 + 3, CH_TILDE>>, DEL_KEY>>,
   <<<<ESC, CH_LBRACKET, CH_0 + 4, CH_TILDE>>, END_KEY>>,
   <<<<ESC, CH_LBRACKET, CH_0 + 8, CH_TILDE>>, END_KEY>>,
   <<<<ESC, CH_LBRACKET, CH_0 + 5, CH_TILDE>>, PAGE_UP>>,
   <<<<ESC, CH_LBRACKET, CH_0 + 6, CH_TILDE>>, PAGE_DOWN>>,
   <<<<ESC, CH_O, CH_H>>, HOME_KEY>>,
   <<<<ESC, CH_O, CH_F>>, END_KEY>>}

StartsWith(s, p) == Len(p) <= Len(s) /\ SubSeq(s, 1, Len(p)) = p

\* the input from its first byte on
FromFirstByte(in) ==
  SubSeq(in, CHOOSE i \in 1..Len(in) :
               in[i] # NoByte /\ \A j \in 1..(i - 1) : in[j] = NoByte, Len(in))

\* the key the table gives for what the terminal serves
TableKey(in) ==
  LET s == FromFirstByte(in)
  IN IF s[1] # ESC THEN s[1]
     ELSE IF \E p \in KeySequences : StartsWith(s, p[1])
          THEN (CHOOSE p \in KeySequences : StartsWith(s, p[1]))[2]
          ELSE ESC

\* key k is byte b as a char: the byte itself, or for a byte above 127 the negative
\* value a signed char gives it
SameChar(k, b) == k = b \/ (b \in 128..255 /\ k = b - 256)

\* C20: the key one editorReadKey returns is the one the table gives: ESC [ A/B/C/D
\* the arrows up/down/right/left, ESC [ H and ESC O H HOME, ESC [ F and ESC O F END,
\* ESC [ 1 ~ and ESC [ 7 ~ HOME, ESC [ 3 ~ DEL, ESC [ 4 ~ and ESC [ 8 ~ END,
\* ESC [ 5 ~ PAGE_UP, ESC [ 6 ~ PAGE_DOWN; an escape followed by anything else, or
\* by a read that times out, is ESC; a first byte other than ESC is returned as it is
C20_DecoderTable ==
  [][pc = "prompt_key" => SameChar(pkey', TableKey(stdin))]_vars

\* ESC [ 6 ~ has been read as PAGE_DOWN, and the input is used up
C20_Witness == pc = "prompt_refresh" /\ pkey = PAGE_DOWN /\ stdin = <<>>

\* C21: a dirty document is left only by a Ctrl-Q that follows KILO_QUIT_TIMES
\* Ctrl-Q in a row; every other key the main loop has processed, a prompt it opened
\* included, leaves the full count; after KILO_QUIT_TIMES Ctrl-Q in a row the next
\* one exits, so pressing it repeatedly exits; Ctrl-Q on a clean document exits at
\* once; and every such exit has code 0
C21_QuitConfirmation ==
  [][/\ (pc = "key" /\ pc' = "exit" /\ E.dirty # 0) => quits >= KILO_QUIT_TIMES
     /\ (pc' = "refresh" /\ key' # CTRL_Q) => quit_times' = KILO_QUIT_TIMES
     /\ (pc = "key" /\ key' = CTRL_Q /\ (E.dirty = 0 \/ quits >= KILO_QUIT_TIMES))
           => pc' = "exit"
     /\ (pc = "key" /\ pc' = "exit") => (key' = CTRL_Q /\ exitcode' = 0)]_vars

\* the editor has exited from a dirty document on the Ctrl-Q after KILO_QUIT_TIMES
C21_Witness ==
  pc = "exit" /\ exitcode = 0 /\ E.dirty > 0 /\ quits = KILO_QUIT_TIMES + 1

\* "hi" typed and Enter pressed on the empty document
HiThenEnter ==
  editorInsertNewline(editorInsertChar(editorInsertChar(
    initEditor(ScreenRows, ScreenCols), LETTER_H), LETTER_I))

\* C22: Enter at (cx, cy) adds exactly one line and puts the cursor at column 0 of
\* line cy + 1; with cx = 0 the new line cy is empty and the old line cy follows it,
\* otherwise line cy keeps its first cx bytes and line cy + 1 holds the rest; the
\* lines before cy and after it are the same, in the same order. "hi" and Enter on
\* the empty document give the lines "hi" and "" and the cursor on row 1, column 0
C22_NewlineSplits ==
  [][(pc = "key" /\ key' = CR) =>
       LET old == Doc(E)
           new == Doc(E')
           cx == E.cx
           cy == E.cy
       IN /\ Len(new) = Len(old) + 1
          /\ E'.cx = 0 /\ E'.cy = cy + 1
          /\ \A i \in 1..cy : new[i] = old[i]
          /\ IF cx = 0
             THEN /\ new[cy + 1] = <<>>
                  /\ \A i \in (cy + 1)..Len(old) : new[i + 1] = old[i]
             ELSE /\ new[cy + 1] = SubSeq(old[cy + 1], 1, cx)
                  /\ new[cy + 2] = SubSeq(old[cy + 1], cx + 1, Len(old[cy + 1]))
                  /\ \A i \in (cy + 2)..Len(old) : new[i + 1] = old[i]
          /\ Doc(HiThenEnter) = <<(<<LETTER_H, LETTER_I>>), <<>>>>
          /\ HiThenEnter.cy = 1 /\ HiThenEnter.cx = 0]_vars

\* the middle line "ab" of three lines has been split into "a" and "b"
C22_Witness ==
  /\ pc = "refresh" /\ key = CR
  /\ numrows(E) = 4 /\ E.cy = 2 /\ E.cx = 0
  /\ Doc(E)[2] = <<LETTER_A>> /\ Doc(E)[3] = <<LETTER_B>>
  /\ Doc(E)[1] # <<>> /\ Doc(E)[4] # <<>>

\* C23: backspace at column 0 of a line cy that has a line before it joins the two:
\* line cy - 1 becomes its own bytes followed by those of line cy, line cy is gone,
\* the other lines are the same, there is one line less, and the cursor is on line
\* cy - 1 at the column where that line used to end
C23_BackspaceJoins ==
  [][(pc = "key" /\ key' \in {BACKSPACE, CTRL_H}
        /\ E.cx = 0 /\ E.cy > 0 /\ E.cy < numrows(E)) =>
       LET old == Doc(E)
           new == Doc(E')
           cy == E.cy
       IN /\ Len(new) = Len(old) - 1
          /\ new[cy] = old[cy] \o old[cy + 1]
          /\ \A i \in 1..(cy - 1) : new[i] = old[i]
          /\ \A i \in (cy + 2)..Len(old) : new[i - 1] = old[i]
          /\ E'.cx = Len(old[cy]) /\ E'.cy = cy - 1]_vars

\* the first two of three lines, "a" and "b", have been joined into "ab"
C23_Witness ==
  /\ pc = "refresh" /\ key = BACKSPACE
  /\ numrows(E) = 2 /\ E.cy = 0 /\ E.cx = 1 /\ E.dirty = 2
  /\ Doc(E)[1] = <<LETTER_A, LETTER_B>> /\ Doc(E)[2] # <<>>

\* C28: DEL leaves the cursor where it is; inside a line it removes the byte at cx;
\* at the end of a line that has a line after it, it joins that line onto this one;
\* with nothing after the cursor (the end of the last line, the line past the end)
\* it changes neither the lines nor the dirty counter
C28_DelKeepsCursor ==
  [][(pc = "key" /\ key' = DEL_KEY) =>
       LET old == Doc(E)
           new == Doc(E')
           cx == E.cx
           cy == E.cy
       IN /\ E'.cx = cx /\ E'.cy = cy
          /\ IF cy < Len(old) /\ cx < Len(old[cy + 1])
             THEN new = [old EXCEPT ![cy + 1] = RemoveAt(old[cy + 1], cx)]
             ELSE IF cy + 1 < Len(old)
                  THEN /\ Len(new) = Len(old) - 1
                       /\ new[cy + 1] = old[cy + 1] \o old[cy + 2]
                       /\ \A i \in 1..cy : new[i] = old[i]
                       /\ \A i \in (cy + 3)..Len(old) : new[i - 1] = old[i]
                  ELSE new = old /\ E'.dirty = E.dirty]_vars

\* C24: in every frame screen row y shows line rowoff + y of the document when
\* there is such a line, and a tilde, or the welcome banner of an empty document,
\* when there is none; so no line index of numrows or more is read
C24_DrawsVisibleLines ==
  AfterRedraw =>
    \A y \in 0..(E.screenrows - 1) :
      LET d == editorDrawRows(E)[y + 1]
      IN IF E.rowoff + y < numrows(E)
         THEN d.kind = "row" /\ d.filerow = E.rowoff + y
         ELSE d.kind = "tilde" \/ (d.kind = "welcome" /\ numrows(E) = 0)

\* the row reached from row m in k steps of d, with wraparound
StepsFrom(e, m, d, k) == (m + d * k + k * numrows(e)) % numrows(e)

\* the nearest row after m (d = 1) or before m (d = -1), with wraparound, whose
\* rendered text contains q; m itself when it is the only one
NearestHit(e, q, m, d) ==
  LET k == CHOOSE j \in 1..numrows(e) :
             /\ StepsFrom(e, m, d, j) \in Hits(e, q)
             /\ \A i \in 1..(j - 1) : StepsFrom(e, m, d, i) \notin Hits(e, q)
  IN StepsFrom(e, m, d, k)

\* a search has a non-empty query and its last key left a hit on row last_match:
\* the hit is of this search, since every typed key starts from last_match = -1
AfterHit ==
  /\ pc = "prompt_key" /\ prompt = "find"
  /\ Len(buf) > 0 /\ last_match # -1

\* C25: after a hit on row m for the query, ARROW_RIGHT and ARROW_DOWN put the
\* cursor on the nearest row after m, going up through the indices and round to
\* row 0, whose rendered text contains the query; ARROW_LEFT and ARROW_UP on the
\* nearest one before m, going down and round to the last row; when m is the only
\* such row the cursor stays on it
C25_ArrowsStepThroughHits ==
  [][(AfterHit /\ pkey' \in FindArrows) =>
       /\ last_match \in Hits(E, buf) /\ E.cy = last_match
       /\ E'.cy = NearestHit(E, buf, last_match,
                             IF pkey' \in {ARROW_RIGHT, ARROW_DOWN} THEN 1 ELSE -1)
       /\ last_match' = E'.cy
       /\ (Hits(E, buf) = {last_match} => E'.cy = last_match)]_vars

\* ARROW_UP from the hit on row 0 has gone round to the hit on row 2
C25_Witness ==
  /\ pc = "prompt_refresh" /\ prompt = "find" /\ pkey = ARROW_UP
  /\ numrows(E) = 3 /\ buf = <<LETTER_A, LETTER_B>>
  /\ Hits(E, buf) = {0, 2}
  /\ E.cy = 2 /\ direction = -1

\* the offset a window of n rows (columns) at offset off needs for position p: p
\* when p is before the window, p - n + 1 when it is after it, off when it is inside
MinimalOffset(off, n, p) ==
  IF p < off THEN p ELSE IF p >= off + n THEN p - n + 1 ELSE off

\* C26: a redraw leaves rowoff (coloff) alone when cy (the rendered column rx) is
\* inside the window, sets it to cy (rx) when the cursor is above (left of) the
\* window, and to cy - screenrows + 1 (rx - screencols + 1) when it is below
\* (right of) it
C26_MinimalScroll ==
  [][(pc \in {"refresh", "prompt_refresh"}) =>
       /\ E'.rowoff = MinimalOffset(E.rowoff, E.screenrows, E.cy)
       /\ E'.coloff = MinimalOffset(E.coloff, E.screencols, E'.rx)]_vars

\* a frame scrolled right by just what the cursor on its second row needed, and
\* not scrolled down
C26_Witness ==
  /\ AfterRedraw
  /\ E.cy = 1 /\ E.rowoff = 0
  /\ E.coloff > 0 /\ E.coloff = E.rx - E.screencols + 1

\* C27: while the dirty counter stays 0 no step after the load changes a line or
\* the number of lines, and the counter comes back to 0 only in a save that has
\* written the document; so whenever it is 0 the lines are those of the last load
\* or successful save, or the empty document the editor started with
C27_CleanMeansUnchanged ==
  [][/\ (pc # "start" /\ E.dirty = 0 /\ E'.dirty = 0) => Doc(E') = Doc(E)
     /\ (E.dirty # 0 /\ E'.dirty = 0) => (outcome' = "written" /\ Doc(E') = Doc(E))
    ]_vars

\* a document typed into the editor started without a file has just been written
\* under the name given at the prompt, and its counter is 0
C27_Witness ==
  /\ pc = "refresh" /\ key = CTRL_S /\ pkey = CR /\ outcome = "written"
  /\ E.filename = <<LETTER_A>>
  /\ E.dirty = 0 /\ numrows(E) > 0 /\ written # <<>>

====
